---- MODULE Spec2Model ----
(***************************************************************************)
(* Text2SQL agent (code/C4/text2sql): SimpleText2SQLAgent.run with its     *)
(* collaborators SimpleKnowledgeBase.search, SimpleSQLGenerator            *)
(* (generate_sql, fix_sql, summarize_results) and _execute_sql on sqlite3. *)
(*                                                                         *)
(* Python str values are sequences of one-character strings; the backquote *)
(* character is written "BQ".  Chinese message literals of the source are  *)
(* written as ASCII tokens (one sequence element each), named after the    *)
(* source line that holds the literal.                                     *)
(***************************************************************************)
EXTENDS Integers, Sequences, FiniteSets, TLC

(***************************************************************************)
(* Bounds of the model.                                                    *)
(***************************************************************************)
\* number of run() invocations explored on one agent
MaxRuns == 2
\* largest value max_retry_count is configured to (default 3)
MaxRetryConfig == 3
\* rows of the largest table of the database
BigTableRows == 102

(***************************************************************************)
(* Python str operations.                                                  *)
(***************************************************************************)
LowerLetters == <<"a","b","c","d","e","f","g","h","i","j","k","l","m",
                  "n","o","p","q","r","s","t","u","v","w","x","y","z">>
UpperLetters == <<"A","B","C","D","E","F","G","H","I","J","K","L","M",
                  "N","O","P","Q","R","S","T","U","V","W","X","Y","Z">>
Digits == <<"0","1","2","3","4","5","6","7","8","9">>

\* str.upper() on one character
UpperChar(c) ==
    IF \E i \in 1..26 : LowerLetters[i] = c
    THEN UpperLetters[CHOOSE i \in 1..26 : LowerLetters[i] = c]
    ELSE c

\* str.upper()
Upper(s) == [i \in 1..Len(s) |-> UpperChar(s[i])]

\* the characters str.strip() removes
IsSpace(c) == c \in {" ", "\n", "\t"}

RECURSIVE LStrip(_)
LStrip(s) == IF s # <<>> /\ IsSpace(Head(s)) THEN LStrip(Tail(s)) ELSE s

RECURSIVE RStrip(_)
RStrip(s) == IF s # <<>> /\ IsSpace(s[Len(s)]) THEN RStrip(SubSeq(s, 1, Len(s) - 1)) ELSE s

\* str.strip()
Strip(s) == RStrip(LStrip(s))

\* str.rstrip(';')
RECURSIVE RStripSemicolon(_)
RStripSemicolon(s) ==
    IF s # <<>> /\ s[Len(s)] = ";" THEN RStripSemicolon(SubSeq(s, 1, Len(s) - 1)) ELSE s

\* str.startswith(p)
StartsWith(s, p) == Len(s) >= Len(p) /\ SubSeq(s, 1, Len(p)) = p

\* str.endswith(p)
EndsWith(s, p) == Len(s) >= Len(p) /\ SubSeq(s, Len(s) - Len(p) + 1, Len(s)) = p

\* p in s, for str
Contains(s, p) == \E i \in 1..(Len(s) - Len(p) + 1) : SubSeq(s, i, i + Len(p) - 1) = p

\* str(n) for a natural number
RECURSIVE FormatNat(_)
FormatNat(n) == IF n < 10 THEN <<Digits[n + 1]>> ELSE FormatNat(n \div 10) \o <<Digits[(n % 10) + 1]>>

\* str(n), the {n} of an f-string
FormatInt(n) == IF n < 0 THEN <<"-">> \o FormatNat(0 - n) ELSE FormatNat(n)

IsDigit(c) == \E i \in 1..10 : Digits[i] = c

DigitValue(c) == (CHOOSE i \in 1..10 : Digits[i] = c) - 1

\* the number a non-empty sequence of digits denotes
RECURSIVE ParseNat(_)
ParseNat(s) == IF s = <<>> THEN 0 ELSE 10 * ParseNat(SubSeq(s, 1, Len(s) - 1)) + DigitValue(s[Len(s)])

IsNumber(s) == s # <<>> /\ \A i \in 1..Len(s) : IsDigit(s[i])

(***************************************************************************)
(* Literals of the source.                                                 *)
(***************************************************************************)
K_SELECT == <<"S","E","L","E","C","T">>
K_LIMIT == <<"L","I","M","I","T">>
K_UPDATE == <<"U","P","D","A","T","E">>
\* "```" and "```sql" (sql_generator.py:107-110)
Fence == <<"BQ","BQ","BQ">>
FenceSql == Fence \o <<"s","q","l">>
\* the keys summarize_results looks for (sql_generator.py:183)
KeyColumns == <<"c","o","l","u","m","n","s">>
KeyRows == <<"r","o","w","s">>
\* the literal of text2sql_agent.py:77 before the row count; its Chinese
\* words are one element each
AckPrefix == <<"caozuo-chenggong", ",", "yingxiang-hangshu", ":", " ">>
\* self.max_result_rows (text2sql_agent.py:28)
max_result_rows == 100
\* self.max_retry_count as __init__ sets it (text2sql_agent.py:26)
DefaultMaxRetryCount == 3
\* None, as a value of a result cell
Null == "None"
\* a name with no value bound to it yet
Unbound == "<unbound>"

(***************************************************************************)
(* SimpleSQLGenerator._build_context.  A context is a sequence whose        *)
(* elements are a heading, the content of an item, or a newline.           *)
(***************************************************************************)
\* the headings of lines 52, 57 and 62, without their newline
HeadingDdl == "=== shujuku-biao-jiegou (DDL) ==="
HeadingDescription == "=== biao-he-ziduan-de-yewu-miaoshu ==="
HeadingQSql == "=== xiangguan-chaxun-shili (Q-SQL) ==="

\* [item['content'] for item in knowledge_results if item['type'] == type]
RECURSIVE ContentsOfType(_, _)
ContentsOfType(items, type) ==
    IF items = <<>> THEN <<>>
    ELSE (IF Head(items).type = type THEN <<Head(items).content>> ELSE <<>>)
             \o ContentsOfType(Tail(items), type)

\* [item['content'] for item in knowledge_results]
RECURSIVE AllContents(_)
AllContents(items) ==
    IF items = <<>> THEN <<>>
    ELSE <<Head(items).content>> \o AllContents(Tail(items))

\* separator.join(contents)
RECURSIVE Join(_, _)
Join(contents, separator) ==
    IF contents = <<>> THEN <<>>
    ELSE IF Len(contents) = 1 THEN contents
    ELSE <<Head(contents)>> \o separator \o Join(Tail(contents), separator)

\* one block of lines 51-64: heading, joined contents, blank line
ContextBlock(heading, contents, separator) ==
    IF contents = <<>> THEN <<>>
    ELSE <<heading, "\n">> \o Join(contents, separator) \o <<"\n", "\n">>

\* lines 44-66 with one block of all the contents as they were retrieved
BuildContextUngrouped(items) ==
    Strip(ContextBlock(HeadingDdl, AllContents(items), <<"\n", "\n">>))

\* _build_context, lines 44-66: the three blocks are appended to context,
\* then context.strip() is returned
BuildContext(items) ==
    LET context ==
            ContextBlock(HeadingDdl, ContentsOfType(items, "ddl"), <<"\n", "\n">>)
            \o ContextBlock(HeadingDescription, ContentsOfType(items, "description"), <<"\n">>)
            \o ContextBlock(HeadingQSql, ContentsOfType(items, "q-sql"), <<"\n", "\n">>)
    IN  CHOOSE stripped \in {Strip(c) : c \in {context}} : TRUE

(***************************************************************************)
(* SimpleSQLGenerator: post-processing of a completion.                    *)
(***************************************************************************)
\* lines 104-110 without the strip of line 112
CleanCompletionNoFinalStrip(raw) ==
    LET s1 == Strip(raw)
        s2 == IF StartsWith(s1, FenceSql) THEN SubSeq(s1, 7, Len(s1)) ELSE s1
    IN  IF EndsWith(s2, Fence) THEN SubSeq(s2, 1, Len(s2) - 3) ELSE s2

\* generate_sql, lines 104-112 (fix_sql repeats them at 158-166)
CleanCompletion(raw) ==
    LET s1 == Strip(raw)
        s2 == IF StartsWith(s1, FenceSql) THEN SubSeq(s1, 7, Len(s1)) ELSE s1
        s3 == IF EndsWith(s2, Fence) THEN SubSeq(s2, 1, Len(s2) - 3) ELSE s2
    IN  Strip(s3)

(***************************************************************************)
(* SimpleText2SQLAgent._execute_sql: classification and the issued text.   *)
(***************************************************************************)
\* sql.strip().upper().startswith('SELECT')
IsSelect(sql) == StartsWith(Upper(Strip(sql)), K_SELECT)

\* the condition of line 54
NeedsLimit(sql) == IsSelect(sql) /\ ~Contains(Upper(sql), K_LIMIT)

\* f"{sql.rstrip(';')} LIMIT {self.max_result_rows};"
WithLimit(sql) == RStripSemicolon(sql) \o <<" ">> \o K_LIMIT \o <<" ">> \o FormatInt(max_result_rows) \o <<";">>

\* the text handed to cursor.execute (lines 54-59)
IssuedStatement(sql) == IF NeedsLimit(sql) THEN WithLimit(sql) ELSE sql

(***************************************************************************)
(* The sqlite3 engine behind cursor.execute: what it may answer to a text. *)
(***************************************************************************)
IsSeparator(c) == IsSpace(c) \/ c = ";"

\* the words of a statement
RECURSIVE Tokens(_)
Tokens(s) ==
    IF s = <<>> THEN <<>>
    ELSE IF IsSeparator(Head(s)) THEN Tokens(Tail(s))
    ELSE LET n == IF \E i \in 1..Len(s) : IsSeparator(s[i])
                  THEN (CHOOSE i \in 1..Len(s) : IsSeparator(s[i]) /\ \A j \in 1..(i - 1) : ~IsSeparator(s[j])) - 1
                  ELSE Len(s)
         IN  <<SubSeq(s, 1, n)>> \o Tokens(SubSeq(s, n + 1, Len(s)))

NoLimit == 0 - 1

\* the row limit the engine applies: the number after a LIMIT keyword
EngineLimit(issued) ==
    LET t == Tokens(issued)
        at == {i \in 1..(Len(t) - 1) : Upper(t[i]) = K_LIMIT /\ IsNumber(t[i + 1])}
    IN  IF at = {} THEN NoLimit
        ELSE ParseNat(t[(CHOOSE i \in at : \A j \in at : j <= i) + 1])

\* the engine parses a text that is empty (nothing to run) or starts with a
\* statement keyword; anything else is a syntax error
EngineAccepts(issued) ==
    LET t == Tokens(issued)
    IN  t = <<>> \/ Upper(t[1]) \in {K_SELECT, K_UPDATE}

\* the rows a cursor holds after a query on a table
EngineRows(issued, table) ==
    LET l == EngineLimit(issued)
    IN  IF l = NoLimit \/ l >= Len(table) THEN table ELSE SubSeq(table, 1, l)

\* str(e) of the exceptions the engine raises when it prepares a statement
EngineMessages == {"no such column: x", "near syntax error"}
\* str(e) of the exception the engine raises while it runs a data change
ConstraintMessage == "CHECK constraint failed"

\* a data-change statement: sqlite3 opens a transaction before it runs one
IsDml(issued) ==
    LET t == Tokens(issued)
    IN  t # <<>> /\ Upper(t[1]) = K_UPDATE

\* connection.in_transaction once a prepared statement has been run, whether
\* it then succeeded or raised
TransactionAfterRun(issued, tx) == tx \/ IsDml(issued)

\* connection.in_transaction after connection.commit() (line 76)
TransactionAfterCommit(tx) == FALSE
ClosedMessage == "Cannot operate on a closed database."

\* cursor.description of a query: the names of the result columns
Columns == <<"a", "b">>

\* the tables of the database, each a sequence of row tuples
Tables ==
    { <<>>,
      << <<Null, Null>> >>,
      << <<Null, Null>>, <<Null, "0">> >>,
      [i \in 1..BigTableRows |-> <<"1", Null>>] }

\* cursor.rowcount after a statement that is no query
RowCounts(issued) == IF Tokens(issued) = <<>> THEN {0 - 1} ELSE {0, 1, 12}

(***************************************************************************)
(* _execute_sql: the value returned on success.                            *)
(***************************************************************************)
\* dict(zip(columns, row))
ZipDict(columns, row) ==
    [c \in {columns[i] : i \in 1..Len(columns)} |->
        row[CHOOSE i \in 1..Len(columns) : columns[i] = c /\ \A j \in 1..Len(columns) : columns[j] = c => j <= i]]

\* lines 63-73
QueryResult(columns, fetched) ==
    LET results == [i \in 1..Len(fetched) |-> ZipDict(columns, fetched[i])]
    IN  [type |-> "dict", columns |-> columns, rows |-> results, count |-> Len(results)]

\* line 77 answering in the shape of a query result
AckResultAsDict(rowcount) == [type |-> "dict", columns |-> <<>>, rows |-> <<>>, count |-> rowcount]

\* line 77
AckResult(rowcount) == [type |-> "str", text |-> AckPrefix \o FormatInt(rowcount)]

NoResult == [type |-> "none"]

(***************************************************************************)
(* SimpleSQLGenerator.summarize_results.                                   *)
(***************************************************************************)
\* key in sql_results: a dict key, or a substring of a str
HasKey(sql_results, key, name) ==
    IF sql_results.type = "dict" THEN name \in {"columns", "rows", "count"}
    ELSE Contains(sql_results.text, key)

\* line 183
IsNonQuery(sql_results) ==
    ~HasKey(sql_results, KeyColumns, "columns") \/ ~HasKey(sql_results, KeyRows, "rows")

\* line 189 testing the truth value of a cell, not "is not None"
HasTruthyData(rows) ==
    \E i \in 1..Len(rows) :
        /\ \E c \in DOMAIN rows[i] : rows[i][c] \notin {Null, "0", ""}
        /\ DOMAIN rows[i] # {}

\* line 189
HasMeaningfulData(rows) ==
    \E i \in 1..Len(rows) :
        /\ \E c \in DOMAIN rows[i] : rows[i][c] # Null
        /\ DOMAIN rows[i] # {}

\* which of the three returns of summarize_results is taken
SummaryKind(sql_results) ==
    IF IsNonQuery(sql_results) THEN "operation_done"
    ELSE IF ~HasMeaningfulData(sql_results.rows) THEN "no_records"
    ELSE "llm"

(***************************************************************************)
(* Inputs: what the caller asks and what the external services answer.     *)
(***************************************************************************)
Questions == {"q1", "q2"}

\* the lists SimpleKnowledgeBase.search may return
KnowledgeLists ==
    { <<>>,
      << [score |-> 4, content |-> "q-sql-top5", type |-> "q-sql"],
         [score |-> 3, content |-> "ddl-products", type |-> "ddl"],
         [score |-> 2, content |-> "desc-products", type |-> "description"],
         [score |-> 1, content |-> "ddl-orders", type |-> "ddl"] >> }

\* response.content of the completion service, for generate_sql and fix_sql
Completions ==
    { K_SELECT \o <<" ", "a">>,
      <<" ", "s","e","l","e","c","t", " ", "a", " ", "l","i","m","i","t", " ", "1","0","1", "\n">>,
      K_SELECT \o <<" ", "a", "_", "l","i","m","i","t">>,
      K_UPDATE \o <<" ", "t">>,
      <<>>,
      FenceSql \o <<"\n">> \o Fence,
      FenceSql \o <<"\n">> \o K_SELECT \o <<" ", "b", ";", "\n">> \o Fence,
      Fence \o <<"\n">> \o K_SELECT \o <<" ", "a", "\n">> \o Fence }

\* response.content of the completion service, for summarize_results
SummaryTexts == {"summary-1"}

(***************************************************************************)
(* State.                                                                  *)
(***************************************************************************)
VARIABLES
    connection,         \* self.connection: "None", "open" or "closed"
    max_retry_count,    \* self.max_retry_count
    pc,                 \* where run is: "idle" (not running), or the call it makes next
    user_question,      \* run's argument
    knowledge_results,  \* run's local
    sql,                \* run's local (<<>> before line 106 binds it)
    retry_count,        \* run's local
    error_message,      \* run's local, Unbound before line 126 binds it
    result,             \* run's local: second value of the last _execute_sql
    outcome,            \* how the last run ended: "none", "returned" or "raised"
    ret,                \* the dict run returned, or the exception it raised
    runs,               \* number of run invocations so far
    calls,              \* per run: number of calls of each collaborator
    lastCall,           \* per run: the collaborator called last
    prevCall,           \* per run: the collaborator called before lastCall
    lastExec,           \* per run: argument and answer of the last _execute_sql
    lastFix,            \* per run: arguments and answer of the last fix_sql
    lastGen,            \* per run: completion and answer of the last generate_sql or fix_sql
    closeLog,           \* self.connection after each of the latest consecutive close() calls
    open_cursors,       \* cursors of the connection that are open
    in_transaction,     \* the connection has a transaction open
    earlier             \* how the run before the latest one ended

vars == <<connection, max_retry_count, pc, user_question, knowledge_results, sql,
          retry_count, error_message, result, outcome, ret, runs, calls, lastCall,
          prevCall, lastExec, lastFix, lastGen, closeLog, open_cursors, in_transaction,
          earlier>>

locals == <<user_question, knowledge_results, sql, retry_count, error_message, result>>

Ops == {"search", "generate", "execute", "fix", "summarize", "summary_llm"}

NoCalls == [o \in Ops |-> 0]
NoExec == [done |-> FALSE]
NoFix == [done |-> FALSE]
NoGen == [done |-> FALSE]

\* one more call of collaborator op
Called(op) ==
    /\ calls' = [calls EXCEPT ![op] = @ + 1]
    /\ lastCall' = op
    /\ prevCall' = lastCall

(***************************************************************************)
(* The ways run ends.                                                      *)
(***************************************************************************)
\* a return statement of run
Return(value) ==
    /\ outcome' = "returned"
    /\ ret' = value
    /\ pc' = "idle"

\* an exception leaving run (run has no try)
Raise(exc) ==
    /\ outcome' = "raised"
    /\ ret' = [exception |-> exc]
    /\ pc' = "idle"

\* line 97
NotConnectedResult == [success |-> FALSE, error |-> "shujuku-wei-lianjie"]

\* line 140 without its {error_message}
ExhaustedErrorWithoutMessage(n, message) ==
    <<"SQL-zhixing-shibai-bing-zai">> \o FormatInt(n)
        \o <<"ci-chongshi-hou-rengran-shibai", ".">>

\* the f-string of line 140
ExhaustedError(n, message) ==
    <<"SQL-zhixing-shibai-bing-zai">> \o FormatInt(n)
        \o <<"ci-chongshi-hou-rengran-shibai", ".", "zuihou-yici-cuowu", ":", " ">> \o <<message>>

\* lines 137-142
ExhaustedResult(question, statement, message) ==
    [success |-> FALSE, question |-> question,
     error |-> ExhaustedError(max_retry_count, message),
     last_sql_attempt |-> statement]

\* lines 118-124
OkResult(question, statement, results, summary) ==
    [success |-> TRUE, question |-> question, sql |-> statement,
     results |-> results, summary |-> summary]

\* line 110 with <= for <
LoopHeadInclusive(count, statement, message) ==
    IF count <= max_retry_count
    THEN /\ pc' = "execute"
         /\ UNCHANGED <<outcome, ret>>
    ELSE IF message = Unbound
         THEN Raise("UnboundLocalError")
         ELSE Return(ExhaustedResult(user_question, statement, message))

\* the while test of line 110 with the new counter, and what follows the loop
\* (line 140 reads error_message, which no iteration may have bound)
LoopHead(count, statement, message) ==
    IF count < max_retry_count
    THEN /\ pc' = "execute"
         /\ UNCHANGED <<outcome, ret>>
    ELSE IF message = Unbound
         THEN Raise("UnboundLocalError")
         ELSE Return(ExhaustedResult(user_question, statement, message))

\* line 130 without its "- 1": a repair after every failure
MayFixAfterEveryFailure(count) == count < max_retry_count

\* line 130
MayFix(count) == count < max_retry_count - 1

\* line 133 leaving the counter as it is
NextCountStuck(count) == count

\* line 133: retry_count += 1
NextCount(count) == count + 1

\* line 126 keeping the message of the run's first failure
FailureMessageKeepFirst(previous, text) ==
    IF previous = Unbound THEN text ELSE previous

\* line 126: error_message = result, the str(e) _execute_sql just returned
FailureMessage(previous, text) == text

\* lines 114 and 130 with the repair test made before the success test
AfterExecuteRepairFirst(success, count) ==
    IF MayFix(count) THEN "fix"
    ELSE IF success THEN "summarize"
    ELSE "loop"

\* lines 114-133: where run goes when _execute_sql has returned: to
\* summarize_results on success, else to fix_sql while a repair is allowed,
\* else straight to the counter and the loop test
AfterExecute(success, count) ==
    IF success THEN "summarize"
    ELSE IF MayFix(count) THEN "fix"
    ELSE "loop"

(***************************************************************************)
(* Operations.                                                             *)
(***************************************************************************)
Init ==
    /\ connection = "None"
    /\ max_retry_count = DefaultMaxRetryCount
    /\ pc = "idle"
    /\ user_question = "q1"
    /\ knowledge_results = <<>>
    /\ sql = <<>>
    /\ retry_count = 0
    /\ error_message = Unbound
    /\ result = NoResult
    /\ outcome = "none"
    /\ ret = [none |-> TRUE]
    /\ runs = 0
    /\ calls = NoCalls
    /\ lastCall = "none"
    /\ prevCall = "none"
    /\ lastExec = NoExec
    /\ lastFix = NoFix
    /\ lastGen = NoGen
    /\ closeLog = <<>>
    /\ open_cursors = 0
    /\ in_transaction = FALSE
    /\ earlier = "none"

history == <<runs, earlier, calls, lastCall, prevCall, lastExec, lastFix, lastGen>>

\* the state of the sqlite3 connection object
database == <<open_cursors, in_transaction>>

\* the caller sets the configurable attribute of lines 25-28 before the first run
Configure ==
    /\ pc = "idle"
    /\ runs = 0
    /\ \E n \in 0..MaxRetryConfig : max_retry_count' = n
    /\ UNCHANGED <<connection, pc, locals, outcome, ret, history, closeLog, database>>

\* connect_database: sqlite3.connect returns a connection, or raises and the
\* attribute keeps its value
ConnectDatabase ==
    /\ pc = "idle"
    /\ \/ /\ connection' = "open"
          /\ open_cursors' = 0
          /\ in_transaction' = FALSE
       \/ UNCHANGED <<connection, database>>
    /\ closeLog' = <<>>
    /\ UNCHANGED <<max_retry_count, pc, locals, outcome, ret, history>>

\* lines 146-147 without the test of line 146
CloseUnguarded(c) == IF c = "None" THEN "AttributeError" ELSE "closed"

\* lines 146-147: what self.connection is after close(); the attribute goes
\* on naming the connection object, which is then closed
CloseConnection(c) == IF c # "None" THEN "closed" ELSE c

\* close; closing a connection drops its open transaction
Close ==
    /\ pc = "idle"
    /\ connection' = CloseConnection(connection)
    /\ closeLog' = IF Len(closeLog) < 2
                   THEN Append(closeLog, CloseConnection(connection))
                   ELSE <<closeLog[2], CloseConnection(connection)>>
    /\ in_transaction' = FALSE
    /\ UNCHANGED <<max_retry_count, pc, locals, outcome, ret, history, open_cursors>>

\* line 96 with a test that never holds
NotConnectedNever(c) == FALSE

\* line 96: not self.connection; None is false, a connection object is true
\* whether it is open or closed
NotConnected(c) == c = "None"

\* a local of one call of run that would still hold what the call before
\* left in it
CarriedLocal(previous, unbound) == previous

\* line 86: a call of run has its own locals, none of them bound when it
\* starts; unbound is the value that stands for "not bound yet"
FreshLocal(previous, unbound) == unbound

\* how a run that is over ended: with every execution failed, after a
\* repair, or otherwise
RunSummary ==
    IF runs = 0 THEN "none"
    ELSE IF outcome = "returned" /\ ~ret.success /\ calls["execute"] >= 1 THEN "exhausted"
    ELSE IF calls["fix"] >= 1 THEN "repaired"
    ELSE "other"

\* run, lines 96-100: the call and its first test
RunStart ==
    /\ pc = "idle"
    /\ runs < MaxRuns
    /\ runs' = runs + 1
    /\ earlier' = RunSummary
    /\ calls' = NoCalls
    /\ lastCall' = "none"
    /\ prevCall' = "none"
    /\ lastExec' = NoExec
    /\ lastFix' = NoFix
    /\ lastGen' = NoGen
    /\ closeLog' = <<>>
    /\ \E q \in Questions :
        /\ user_question' = q
        /\ knowledge_results' = FreshLocal(knowledge_results, <<>>)
        /\ sql' = FreshLocal(sql, <<>>)
        /\ retry_count' = FreshLocal(retry_count, 0)
        /\ error_message' = FreshLocal(error_message, Unbound)
        /\ result' = FreshLocal(result, NoResult)
        /\ IF NotConnected(connection)
           THEN Return(NotConnectedResult)
           ELSE /\ pc' = "search"
                /\ outcome' = "none"
                /\ ret' = [none |-> TRUE]
    /\ UNCHANGED <<connection, max_retry_count, database>>

\* run, line 103: knowledge_base.search returns a list or raises
Search ==
    /\ pc = "search"
    /\ Called("search")
    /\ \/ /\ \E k \in KnowledgeLists : knowledge_results' = k
          /\ pc' = "generate"
          /\ UNCHANGED <<outcome, ret>>
       \/ /\ Raise("search failed")
          /\ UNCHANGED knowledge_results
    /\ UNCHANGED <<connection, max_retry_count, user_question, sql, retry_count,
                   error_message, result, runs, earlier, lastExec, lastFix, lastGen,
                   closeLog, database>>

\* run, lines 106-110: generate_sql returns a cleaned completion or raises;
\* then retry_count = 0 and the first loop test
Generate ==
    /\ pc = "generate"
    /\ Called("generate")
    /\ \/ \E raw \in Completions :
            /\ sql' = CleanCompletion(raw)
            /\ lastGen' = [done |-> TRUE, context |-> BuildContext(knowledge_results), op |-> "generate", raw |-> raw,
                           returned |-> TRUE, sql |-> CleanCompletion(raw)]
            /\ retry_count' = 0
            /\ LoopHead(0, CleanCompletion(raw), error_message)
       \/ /\ Raise("generate failed")
          /\ lastGen' = [done |-> TRUE, context |-> BuildContext(knowledge_results), op |-> "generate", raw |-> <<>>,
                         returned |-> FALSE, sql |-> <<>>]
          /\ UNCHANGED <<sql, retry_count>>
    /\ UNCHANGED <<connection, max_retry_count, user_question, knowledge_results,
                   error_message, result, runs, earlier, lastExec, lastFix, closeLog, database>>

\* what _execute_sql(sql) may do: <<success, value, cursor.rowcount, a cursor
\* was acquired, connection.in_transaction at the return>>.
\* The statement is not run: connection.cursor() raises on a closed
\* connection, or cursor.execute raises when it prepares the text
RefusedAnswers ==
    IF connection = "open"
    THEN {<<FALSE, m, 0, TRUE, in_transaction>> : m \in EngineMessages}
    ELSE {<<FALSE, ClosedMessage, 0, FALSE, in_transaction>>}

\* The statement is run: a data change may raise while it runs, and nothing
\* rolls back; a query returns its rows; a data change is committed
RunAnswers(statement) ==
    LET issued == IssuedStatement(statement)
        failures ==
            IF IsDml(issued)
            THEN {<<FALSE, ConstraintMessage, 0, TRUE,
                    TransactionAfterRun(issued, in_transaction)>>}
            ELSE {}
        successes ==
            IF IsSelect(statement)
            THEN {<<TRUE, QueryResult(Columns, EngineRows(issued, t)), 0 - 1, TRUE,
                    TransactionAfterRun(issued, in_transaction)>> : t \in Tables}
            ELSE {<<TRUE, AckResult(n), n, TRUE,
                    TransactionAfterCommit(TransactionAfterRun(issued, in_transaction))>> :
                       n \in RowCounts(issued)}
    IN  IF connection = "open" /\ EngineAccepts(issued)
        THEN failures \cup successes
        ELSE {}

\* the finally of lines 82-84 run only when the try body ended normally
CursorClosedOnSuccessOnly(acquired, success) == acquired /\ success

\* lines 82-84: the finally closes the cursor whenever one was bound,
\* however the try body ended
CursorClosed(acquired, success) == acquired

\* the number of open cursors when _execute_sql returns
CursorsAfter(open, acquired, success) ==
    open + (IF acquired THEN 1 ELSE 0) - (IF CursorClosed(acquired, success) THEN 1 ELSE 0)

\* _execute_sql answered a: what run keeps of it (lines 112, 126), the state
\* the call left in the connection, and the branch run takes
Executed(a) ==
    /\ lastExec' = [done |-> TRUE, sql |-> sql, issued |-> IssuedStatement(sql),
                    ok |-> a[1],
                    value |-> IF a[1] THEN a[2] ELSE NoResult,
                    message |-> IF a[1] THEN Unbound ELSE a[2],
                    rowcount |-> a[3],
                    acquired |-> a[4], attempt |-> retry_count + 1]
    /\ open_cursors' = CursorsAfter(open_cursors, a[4], a[1])
    /\ in_transaction' = a[5]
    /\ result' = IF a[1] THEN a[2] ELSE NoResult
    /\ error_message' = IF a[1] THEN error_message
                        ELSE FailureMessage(error_message, a[2])
    /\ IF AfterExecute(a[1], retry_count) = "loop"
       THEN /\ retry_count' = NextCount(retry_count)
            /\ LoopHead(NextCount(retry_count), sql,
                        FailureMessage(error_message, a[2]))
       ELSE /\ pc' = AfterExecute(a[1], retry_count)
            /\ UNCHANGED <<retry_count, outcome, ret>>

\* run, lines 112-133 up to the next collaborator call: _execute_sql, then
\* either on to summarize, or on to fix, or the counter and the loop test
Execute ==
    /\ pc = "execute"
    /\ Called("execute")
    /\ \/ \E a \in RefusedAnswers : Executed(a)
       \/ \E a \in RunAnswers(sql) : Executed(a)
    /\ UNCHANGED <<connection, max_retry_count, user_question, knowledge_results,
                   sql, runs, earlier, lastFix, lastGen, closeLog>>

\* run, lines 131-133 and 110: fix_sql returns a cleaned completion or raises;
\* then the counter and the loop test
Fix ==
    /\ pc = "fix"
    /\ Called("fix")
    /\ \/ \E raw \in Completions :
            /\ sql' = CleanCompletion(raw)
            /\ lastFix' = [done |-> TRUE, original_sql |-> sql,
                           error_message |-> error_message,
                           knowledge_results |-> knowledge_results,
                           returned |-> TRUE, fixed_sql |-> CleanCompletion(raw)]
            /\ lastGen' = [done |-> TRUE, context |-> BuildContext(knowledge_results), op |-> "fix", raw |-> raw,
                           returned |-> TRUE, sql |-> CleanCompletion(raw)]
            /\ retry_count' = NextCount(retry_count)
            /\ LoopHead(NextCount(retry_count), CleanCompletion(raw), error_message)
       \/ /\ lastFix' = [done |-> TRUE, original_sql |-> sql,
                         error_message |-> error_message,
                         knowledge_results |-> knowledge_results,
                         returned |-> FALSE, fixed_sql |-> <<>>]
          /\ lastGen' = [done |-> TRUE, context |-> BuildContext(knowledge_results), op |-> "fix", raw |-> <<>>,
                         returned |-> FALSE, sql |-> <<>>]
          /\ Raise("fix failed")
          /\ UNCHANGED <<sql, retry_count>>
    /\ UNCHANGED <<connection, max_retry_count, user_question, knowledge_results,
                   error_message, result, runs, earlier, lastExec, closeLog, database>>

\* summarize_results' fixed answers (lines 184 and 191)
OperationDoneSummary == [kind |-> "operation_done"]
NoRecordsSummary(question) == [kind |-> "no_records", question |-> question]

\* run, lines 116-124: summarize_results answers by itself, or asks the
\* completion service, which returns a text or raises; then the Ok result
Summarize ==
    /\ pc = "summarize"
    /\ \/ /\ SummaryKind(result) = "operation_done"
          /\ Called("summarize")
          /\ Return(OkResult(user_question, sql, result, OperationDoneSummary))
       \/ /\ SummaryKind(result) = "no_records"
          /\ Called("summarize")
          /\ Return(OkResult(user_question, sql, result, NoRecordsSummary(user_question)))
       \/ /\ SummaryKind(result) = "llm"
          /\ calls' = [calls EXCEPT !["summarize"] = @ + 1, !["summary_llm"] = @ + 1]
          /\ lastCall' = "summarize"
          /\ prevCall' = lastCall
          /\ \/ \E t \in SummaryTexts :
                  Return(OkResult(user_question, sql, result, [kind |-> "llm", text |-> t]))
             \/ Raise("summarize failed")
    /\ UNCHANGED <<connection, max_retry_count, locals, runs, earlier, lastExec, lastFix,
                   lastGen, closeLog, database>>

Next ==
    \/ Configure
    \/ ConnectDatabase
    \/ Close
    \/ RunStart
    \/ Search
    \/ Generate
    \/ Execute
    \/ Fix
    \/ Summarize

Spec == Init /\ [][Next]_vars

\* a step of run: the interpreter goes on with a run that was started, and
\* every collaborator call comes back (by a return or by an exception)
RunStep == Search \/ Generate \/ Execute \/ Fix \/ Summarize

FairSpec == Spec /\ WF_vars(RunStep)

(***************************************************************************)
(* Properties.                                                             *)
(***************************************************************************)
\* a run has ended, by a return or by an exception
RunEnded == pc = "idle" /\ outcome # "none"

\* the run made max_retry_count executions and the last of them failed (an
\* execution that succeeds is the last one of its run, so all of them failed)
AllAttemptsFailed ==
    /\ RunEnded
    /\ max_retry_count >= 1
    /\ calls["execute"] = max_retry_count
    /\ lastExec.done
    /\ ~lastExec.ok

\* C1: in every run, execute is called at most max_retry_count times, the
\* attempt counter never exceeds max_retry_count, and fix is called at most
\* max_retry_count - 1 times (never, when no execution is permitted).
C1_BoundedAttempts ==
    /\ calls["execute"] <= max_retry_count
    /\ retry_count <= max_retry_count
    /\ max_retry_count >= 1 => calls["fix"] <= max_retry_count - 1
    /\ max_retry_count = 0 => calls["fix"] = 0

C1_Witness ==
    /\ RunEnded
    /\ max_retry_count = 3
    /\ calls["execute"] = 3
    /\ retry_count = 3
    /\ calls["fix"] = 2

\* C2: when all max_retry_count executions of a run fail, run returns a
\* failure dict whose error holds the message of the last execution, whose
\* last_sql_attempt is the statement of the last execution, and fix was
\* called exactly max_retry_count - 1 times.
C2_ExhaustedResult ==
    AllAttemptsFailed =>
        /\ outcome = "returned"
        /\ ret.success = FALSE
        /\ \E i \in 1..Len(ret.error) : ret.error[i] = lastExec.message
        /\ ret.last_sql_attempt = lastExec.sql
        /\ ret.question = user_question
        /\ calls["fix"] = max_retry_count - 1

C2_Witness ==
    /\ AllAttemptsFailed
    /\ max_retry_count = 3
    /\ calls["fix"] = 2
    /\ lastFix.original_sql # lastFix.fixed_sql
    /\ ret.last_sql_attempt = lastFix.fixed_sql

\* C3: fix is never called after the final permitted execution: a fix that
\* returned is followed by an execute, and that execute runs exactly the
\* statement fix returned; no run ends with a repaired statement unexecuted.
C3_FixIsExecuted ==
    /\ pc = "fix" => calls["execute"] < max_retry_count
    /\ (lastCall = "fix" /\ lastFix.returned) => (pc = "execute" /\ sql = lastFix.fixed_sql)
    /\ (lastCall = "execute" /\ prevCall = "fix") => lastExec.sql = lastFix.fixed_sql

C3_Witness ==
    /\ lastCall = "execute"
    /\ prevCall = "fix"
    /\ calls["fix"] = 2
    /\ lastFix.fixed_sql # lastFix.original_sql
    /\ lastExec.sql = lastFix.fixed_sql

\* C4: if the k-th execution of a run is the first to succeed, run returns
\* the success dict with sql the statement of that execution and results
\* its value, after exactly k - 1 fix calls and k executions.
C4_FirstSuccessReturnsOk ==
    (RunEnded /\ lastExec.done /\ lastExec.ok) =>
        /\ outcome = "returned"
        /\ ret.success = TRUE
        /\ ret.sql = lastExec.sql
        /\ ret.results = lastExec.value
        /\ calls["execute"] = lastExec.attempt
        /\ calls["fix"] = lastExec.attempt - 1

\* C5: the rows of the result of a successful run are at most
\* max_result_rows, whatever read statement the generator produced.
C5_RowCap ==
    (outcome = "returned" /\ ret.success = TRUE /\ ret.results.type = "dict") =>
        Len(ret.results.rows) <= max_result_rows

\* C6: if search raises, run ends by returning a failure dict, and none of
\* generate, execute, fix, summarize is called.
C6_SearchFailureReturnsErr ==
    (RunEnded /\ lastCall = "search") =>
        /\ outcome = "returned"
        /\ ret.success = FALSE
        /\ \A o \in Ops \ {"search"} : calls[o] = 0

\* C7: every run ends by returning a dict (success or failure); no failure of
\* a collaborator makes run end any other way.
C7_RunAlwaysReturns == RunEnded => outcome = "returned"

\* C8: every failure dict run returns carries the question, an error text
\* and the last statement attempted.
C8_ErrCarriesContext ==
    (outcome = "returned" /\ ret.success = FALSE) =>
        {"question", "error", "last_sql_attempt"} \subseteq DOMAIN ret

\* every value of every row is None (also when there is no row)
NothingFound(rows) == \A i \in 1..Len(rows) : \A c \in DOMAIN rows[i] : rows[i][c] = Null

\* C9: summarize on a query result with no row, or with only None values,
\* returns the fixed no-records answer without a completion-service call; on a
\* result with a value that is not None it makes exactly one such call; which
\* of the two it is depends on the result alone.
C9_SummarizeShortCircuit ==
    (lastCall = "summarize" /\ result.type = "dict") =>
        IF NothingFound(result.rows)
        THEN /\ calls["summary_llm"] = 0
             /\ outcome = "returned"
             /\ ret.summary = NoRecordsSummary(user_question)
        ELSE /\ calls["summary_llm"] = 1
             /\ outcome = "returned" => ret.summary.kind = "llm"

C9_Witness ==
    /\ lastCall = "summarize"
    /\ result.type = "dict"
    /\ Len(result.rows) = 1
    /\ NothingFound(result.rows)
    /\ ret.summary.kind = "no_records"

\* the integer a text holds after the prefix of the acknowledgement
CountAfterPrefix(text) ==
    LET tail == SubSeq(text, Len(AckPrefix) + 1, Len(text))
    IN  IF tail # <<>> /\ Head(tail) = "-" THEN 0 - ParseNat(Tail(tail)) ELSE ParseNat(tail)

\* C10: a statement that is no query and executes successfully yields an
\* acknowledgement with no rows that carries the affected-row count;
\* summarize answers it with the fixed operation-done text without a
\* completion-service call, and run returns the success dict.
C10_MutationAcknowledged ==
    (lastExec.done /\ lastExec.ok /\ ~IsSelect(lastExec.sql)) =>
        /\ lastExec.value.type = "str"
        /\ StartsWith(lastExec.value.text, AckPrefix)
        /\ CountAfterPrefix(lastExec.value.text) = lastExec.rowcount
        /\ pc \in {"summarize", "idle"}
        /\ pc = "idle" =>
            /\ outcome = "returned"
            /\ ret.success = TRUE
            /\ ret.results = lastExec.value
            /\ ret.summary = OperationDoneSummary
            /\ calls["summary_llm"] = 0

C10_Witness ==
    /\ pc = "idle"
    /\ lastExec.done
    /\ lastExec.ok
    /\ StartsWith(lastExec.sql, K_UPDATE)
    /\ lastExec.rowcount = 12
    /\ ret.summary = OperationDoneSummary

\* generate_sql returned a statement in this run
GenerateReturned ==
    /\ calls["generate"] = 1
    /\ ~(lastGen.op = "generate" /\ ~lastGen.returned)

\* C11: generate and fix never return an empty string (an empty completion
\* ends them with an error instead).
C11_NeverEmptyStatement ==
    /\ GenerateReturned /\ calls["fix"] = 0 => sql # <<>>
    /\ (lastFix.done /\ lastFix.returned) => lastFix.fixed_sql # <<>>

\* a completion that holds no statement: nothing but white space, or a
\* sql-tagged fence around nothing but white space
EmptyAfterCleaning(raw) ==
    LET s == Strip(raw)
    IN  \/ s = <<>>
        \/ /\ Len(s) >= Len(FenceSql) + Len(Fence)
           /\ StartsWith(s, FenceSql)
           /\ EndsWith(s, Fence)
           /\ \A i \in (Len(FenceSql) + 1)..(Len(s) - Len(Fence)) : IsSpace(s[i])

\* C11 as amended: generate and fix return the empty string when the
\* completion is empty, or empty after fence stripping and trimming; the
\* empty statement becomes the current statement of the run.
C11_EmptyCompletionReturnsEmpty ==
    (lastGen.done /\ lastGen.returned /\ EmptyAfterCleaning(lastGen.raw)) =>
        /\ lastGen.sql = <<>>
        /\ lastCall = lastGen.op => sql = <<>>
        /\ (lastGen.op = "fix" /\ lastFix.done) => lastFix.fixed_sql = <<>>

C11_Witness ==
    /\ lastGen.done
    /\ lastGen.returned
    /\ lastGen.op = "fix"
    /\ lastGen.raw = FenceSql \o <<"\n">> \o Fence
    /\ pc = "execute"
    /\ sql = <<>>

\* C12: close() leaves the connection released and is idempotent: called
\* before any connect or several times in a row it does not raise, and the
\* connection after the second of two consecutive calls is as after the first.
C12_CloseIdempotent ==
    /\ \A i \in 1..Len(closeLog) : closeLog[i] \in {"None", "closed"}
    /\ Len(closeLog) = 2 => closeLog[2] = closeLog[1]
    /\ closeLog # <<>> => (connection = closeLog[Len(closeLog)] /\ ~in_transaction)

C12_Witness ==
    /\ closeLog = <<"closed", "closed">>
    /\ connection = "closed"

\* C13: the execution of an empty current statement fails, so the run does
\* not return Ok for it, and with attempts left the failure leads to fix.
C13_EmptyStatementFails ==
    (lastExec.done /\ lastExec.sql = <<>>) =>
        /\ ~lastExec.ok
        /\ ~(outcome = "returned" /\ ret.success = TRUE)
        /\ (lastCall = "execute" /\ lastExec.attempt < max_retry_count) => pc = "fix"

\* C14: execute appends a row limit within max_result_rows exactly when the
\* statement is a read query without a row-limit clause; a read query with a
\* limit, and every other statement, is issued as given.
C14_LimitAppendedExactlyWhenMissing ==
    lastExec.done =>
        IF IsSelect(lastExec.sql) /\ EngineLimit(lastExec.sql) = NoLimit
        THEN /\ lastExec.issued # lastExec.sql
             /\ EngineLimit(lastExec.issued) \in 0..max_result_rows
        ELSE lastExec.issued = lastExec.sql

\* C15: every cursor an execute call acquired is closed when the call
\* returns, on the success path and on every failure path; between execute
\* calls no cursor is open.
C15_CursorsReleased ==
    /\ open_cursors = 0
    /\ lastExec.done =>
           (lastExec.acquired <=> lastExec.message # ClosedMessage)

C15_Witness ==
    /\ lastExec.done
    /\ ~lastExec.ok
    /\ lastExec.acquired
    /\ lastExec.message = ConstraintMessage
    /\ open_cursors = 0

\* C16: a data change is run and committed in one execute call, and no
\* transaction is open when an execute call has returned, whether it
\* succeeded or failed.
C16_NoTransactionLeftOpen == lastExec.done => ~in_transaction

\* C17: the collaborator calls of a run come in a fixed order: search once,
\* then generate once, then the first execute; a fix directly after a failed
\* execute; summarize at most once, directly after a successful execute and
\* as the last call of the run; a run that returns Err made no summarize call.
C17_CallOrder ==
    /\ calls["search"] <= 1 /\ calls["generate"] <= 1 /\ calls["summarize"] <= 1
    /\ lastCall = "none" => calls = NoCalls
    /\ lastCall = "search" =>
           prevCall = "none" /\ calls = [NoCalls EXCEPT !["search"] = 1]
    /\ lastCall = "generate" =>
           /\ prevCall = "search"
           /\ calls = [NoCalls EXCEPT !["search"] = 1, !["generate"] = 1]
    /\ lastCall = "execute" =>
           /\ prevCall \in {"generate", "fix"}
           /\ prevCall = "generate" <=> calls["execute"] = 1
           /\ calls["fix"] = calls["execute"] - 1
    /\ lastCall = "fix" =>
           /\ prevCall = "execute"
           /\ lastExec.done /\ ~lastExec.ok
           /\ calls["fix"] = calls["execute"]
    /\ lastCall = "summarize" =>
           /\ prevCall = "execute"
           /\ lastExec.done /\ lastExec.ok
           /\ calls["fix"] = calls["execute"] - 1
           /\ RunEnded
    /\ calls["execute"] >= 1 => (calls["search"] = 1 /\ calls["generate"] = 1)
    /\ pc = "summarize" => (lastCall = "execute" /\ lastExec.ok)
    /\ pc = "fix" => (lastCall = "execute" /\ ~lastExec.ok)
    /\ (RunEnded /\ outcome = "returned" /\ ret.success = FALSE) =>
           calls["summarize"] = 0

\* a run with a failed execute, a fix, a successful execute and a summarize
C17_Witness ==
    /\ RunEnded
    /\ lastCall = "summarize"
    /\ calls["fix"] = 1
    /\ calls["execute"] = 2
    /\ outcome = "returned"

\* C18: a fix call receives the statement whose execution just failed, the
\* engine's error text of that same execution and the items the run's search
\* returned; the statement it returns becomes the current statement and is
\* the one the next execute call runs.
C18_FixReceivesFailure ==
    /\ lastCall = "fix" =>
           /\ lastFix.done /\ lastExec.done /\ ~lastExec.ok
           /\ lastFix.original_sql = lastExec.sql
           /\ lastFix.error_message = lastExec.message
           /\ lastFix.error_message \in EngineMessages \cup {ConstraintMessage, ClosedMessage}
           /\ lastFix.knowledge_results = knowledge_results
           /\ lastFix.returned => sql = lastFix.fixed_sql
    /\ (lastCall = "execute" /\ prevCall = "fix") =>
           (lastFix.returned /\ lastExec.sql = lastFix.fixed_sql)

\* the second repair of a run, after a failure with another message than
\* the engine gives for a closed connection
C18_Witness ==
    /\ lastCall = "fix"
    /\ calls["fix"] = 2
    /\ lastFix.returned
    /\ lastFix.error_message = ConstraintMessage
    /\ lastFix.knowledge_results # <<>>
    /\ lastFix.fixed_sql # lastFix.original_sql

\* how far a run is from its end, at most: 3 steps for each attempt left
Rank ==
    CASE pc = "idle" -> 0
      [] pc = "summarize" -> 1
      [] pc = "fix" -> 3 * (max_retry_count - retry_count) + 1
      [] pc = "execute" -> 3 * (max_retry_count - retry_count) + 2
      [] pc = "generate" -> 3 * max_retry_count + 3
      [] pc = "search" -> 3 * max_retry_count + 4

\* a step that ends a loop iteration whose execution failed: the repair
\* returned, or no repair was allowed
FailedIterationEnds ==
    \/ pc = "fix" /\ outcome' # "raised"
    \/ pc = "execute" /\ pc' \notin {"summarize", "fix"}

\* C19: every run that was started ends, whatever the executions and the
\* repairs give: the loop body runs only while the counter is below
\* max_retry_count, every iteration whose execution failed adds one to the
\* counter, every step of a run brings its end nearer, and the run ends.
C19_RunTerminates ==
    /\ [](pc \in {"execute", "fix", "summarize"} => retry_count < max_retry_count)
    /\ [][FailedIterationEnds => retry_count' = retry_count + 1]_vars
    /\ [][pc # "idle" => Rank' < Rank]_vars
    /\ (pc # "idle") ~> (pc = "idle")

\* a run ended after max_retry_count failed executions and the repairs between
C19_Witness ==
    /\ RunEnded
    /\ max_retry_count = MaxRetryConfig
    /\ retry_count = max_retry_count
    /\ calls["execute"] = max_retry_count
    /\ calls["fix"] = max_retry_count - 1

\* the loop of lines 110-133 was left without a successful execution
LoopExitedWithoutSuccess ==
    /\ RunEnded
    /\ GenerateReturned
    /\ retry_count >= max_retry_count
    /\ ~(lastExec.done /\ lastExec.ok)

\* C20: whenever the retry loop ends without a successful execution, run
\* returns a failure dict, for every max_retry_count >= 0.
C20_LoopExitReturnsErr ==
    LoopExitedWithoutSuccess =>
        /\ outcome = "returned"
        /\ ret.success = FALSE

\* C21: every run starts with nothing of an earlier run: the counter at 0,
\* no statement, no error message and no knowledge items; its first
\* execution is attempt 1 and runs the statement this run's generate
\* returned; and a run in which every execution failed made max_retry_count
\* executions, also when the run before it was exhausted or repaired.
C21_RunsIndependent ==
    /\ pc \in {"search", "generate"} =>
           /\ retry_count = 0
           /\ sql = <<>>
           /\ error_message = Unbound
           /\ result = NoResult
    /\ pc = "search" => knowledge_results = <<>>
    /\ (lastCall = "execute" /\ calls["execute"] = 1) =>
           /\ lastExec.attempt = 1
           /\ lastGen.op = "generate" /\ lastGen.returned
           /\ lastExec.sql = lastGen.sql
    /\ (RunEnded /\ outcome = "returned" /\ ~ret.success /\ calls["generate"] = 1) =>
           /\ calls["execute"] = max_retry_count
           /\ ret.last_sql_attempt = lastExec.sql
    /\ lastFix.done => lastFix.knowledge_results = knowledge_results

\* a run exhausted its three executions after the run before it had done so
C21_Witness ==
    /\ earlier = "exhausted"
    /\ AllAttemptsFailed
    /\ max_retry_count = DefaultMaxRetryCount
    /\ calls["fix"] = max_retry_count - 1
    /\ outcome = "returned"

\* the kinds of item a context shows, in the order of their blocks; the
\* question-and-SQL examples carry the type 'q-sql'
ContextKinds == <<"ddl", "description", "q-sql">>

KindPlace(type) == CHOOSE k \in 1..Len(ContextKinds) : ContextKinds[k] = type

\* where a content stands in a context (0: nowhere)
PlaceIn(context, content) ==
    IF \E p \in 1..Len(context) : context[p] = content
    THEN CHOOSE p \in 1..Len(context) : context[p] = content
    ELSE 0

\* C22: the context generate_sql and fix_sql build holds the content of
\* every retrieved item of the kinds ddl, description and example (type
\* 'q-sql'), the ddl contents first, then the descriptions, then the
\* examples, and the contents of one kind in their retrieval order.
C22_ContextGroupsAllItems ==
    lastGen.done =>
        LET items == knowledge_results
            shown == {i \in 1..Len(items) :
                        \E k \in 1..Len(ContextKinds) : ContextKinds[k] = items[i].type}
        IN  /\ \A i \in shown : PlaceIn(lastGen.context, items[i].content) > 0
            /\ \A i \in shown : \A j \in shown :
                   (\/ KindPlace(items[i].type) < KindPlace(items[j].type)
                    \/ (items[i].type = items[j].type /\ i < j)) =>
                       PlaceIn(lastGen.context, items[i].content)
                           < PlaceIn(lastGen.context, items[j].content)
            /\ (items # <<>>) => lastGen.context = Strip(lastGen.context)

\* fix_sql built its context from four items retrieved with an example
\* first and a description between two ddl items
C22_Witness ==
    /\ lastGen.done
    /\ lastGen.op = "fix"
    /\ Len(knowledge_results) = 4
    /\ knowledge_results[1].type = "q-sql"
    /\ PlaceIn(lastGen.context, "ddl-orders") < PlaceIn(lastGen.context, "desc-products")
    /\ PlaceIn(lastGen.context, "desc-products") < PlaceIn(lastGen.context, "q-sql-top5")

\* C23: the statement generate_sql and fix_sql return does not begin or end
\* with a code-fence marker and has no leading or trailing whitespace,
\* whatever the completion was, its opening fence tagged sql or untagged.
C23_NoFenceLeft ==
    (lastGen.done /\ lastGen.returned) =>
        /\ ~StartsWith(lastGen.sql, Fence)
        /\ ~EndsWith(lastGen.sql, Fence)
        /\ Strip(lastGen.sql) = lastGen.sql

\* C24: on an agent whose connection was never opened (self.connection is
\* still None), every run returns the not-connected failure at once, with
\* no call of search, generate, execute, fix or summarize.
C24_NeverConnectedRunFails ==
    (connection = "None" /\ runs >= 1) =>
        /\ pc = "idle"
        /\ outcome = "returned"
        /\ ret = NotConnectedResult
        /\ ~ret.success
        /\ calls = NoCalls
        /\ lastCall = "none"
        /\ ~lastExec.done /\ ~lastFix.done /\ ~lastGen.done

C24_Witness ==
    /\ connection = "None"
    /\ runs = 2
    /\ outcome = "returned"
    /\ ret = NotConnectedResult
    /\ calls = NoCalls

\* C25: once close() was called the agent is not connected: a run on the
\* closed connection returns at once, so no run is ever past its first test
\* while self.connection is a closed connection.
C25_ClosedIsNotConnected == connection = "closed" => pc = "idle"

====
